---- MODULE Spec2Model ----
(***************************************************************************)
(* Reminder lifecycle of src/App.js: the App component's state, the        *)
(* scheduleReminder / cancelReminder handlers with their suspension at the *)
(* expo-notifications calls, the delivery listener, the app-state listener *)
(* and the periodic sweep.                                                 *)
(*                                                                         *)
(* Strings the code parses (timeValue) are sequences of one-character      *)
(* strings, so that parseInt is computed and not assumed.  Times are       *)
(* milliseconds since the epoch, as Date.now() and Date#getTime() give.    *)
(* The component is mounted once and may be unmounted once.                *)
(***************************************************************************)
EXTENDS Integers, Sequences, FiniteSets, TLC

VARIABLES
    reminderText,      \* useState('')         App.js:104
    timeValue,         \* useState('')         App.js:105
    timeUnit,          \* useState('minutes')  App.js:106
    reminders,         \* useState([])         App.js:107
    toastVisible,      \* useState(false)      App.js:108
    toastMessage,      \* useState('')         App.js:109
    appState,          \* useRef(AppState.currentState).current  App.js:110
    now,               \* the host clock, Date.now()
    permission,        \* position of registerForPushNotificationsAsync
    pendingSchedules,  \* scheduleReminder invocations suspended at App.js:231
    pendingCancels,    \* cancelReminder invocations suspended at App.js:258
    notifications,     \* what the gateway holds scheduled: [id, trigger]
    nextId,            \* the gateway's next fresh identifier
    calls,             \* history: scheduleReminder invocations so far
    cancelCalls,       \* history: cancelReminder invocations so far
    inserts,           \* history: records that entered the Store
    delivered,         \* history: ids whose notification the gateway fired
    cancelled,         \* history: ids the user asked to cancel
    unhandled,         \* history: async functions whose rejection nobody caught
    last,              \* history: the step just taken
    mounted,           \* the component is mounted: its state accepts updates
    subscriptions,     \* listeners and timers registered at App.js:115-117
    returned           \* values getMilliseconds returned when applied on its own

vars == <<reminderText, timeValue, timeUnit, reminders, toastVisible,
          toastMessage, appState, now, permission, pendingSchedules,
          pendingCancels, notifications, nextId, calls, cancelCalls, inserts,
          delivered, cancelled, unhandled, last, mounted, subscriptions,
          returned>>

(***************************************************************************)
(* Bounds of the model.                                                    *)
(***************************************************************************)
MaxCalls == 2      \* scheduleReminder invocations in one behaviour
MaxCancels == 1    \* cancelReminder invocations in one behaviour
StartTime == 86370000  \* the clock at mount: half a minute before a day boundary
Horizon == 30000   \* the clock advances in TickMs steps up to StartTime + Horizon
TickMs == 30000    \* granularity of the free-running clock steps
MaxMagnitude == 12 \* largest magnitude getMilliseconds is applied to on its own

(***************************************************************************)
(* Inputs the user can type or select.                                     *)
(***************************************************************************)
Texts == {"", "Call mom"}
TimeValues == {<< >>, <<"0">>, <<"-", "3">>, <<"a", "b", "c">>, <<"1">>,
               <<"2">>, <<"2", "x">>}
Units == {"seconds", "minutes", "hours"}
\* what the user types in the behaviours of the reminder lifecycle
LifecycleTexts == {"Call mom"}
LifecycleValues == {<<"1">>}
EndToEndValues == {<<"1">>, <<"2">>}
AppStates == {"active", "inactive", "background"}
\* what the effect of App.js:113-118 registers and its cleanup removes
Subscriptions == {"notificationSubscription", "appStateSubscription",
                  "cleanupInterval"}
PermissionStatuses == {"granted", "denied", "undetermined"}

(***************************************************************************)
(* parseInt(string), radix undefined: leading white space is skipped, one  *)
(* sign is read, a 0x/0X prefix selects radix 16, then the longest prefix  *)
(* of digits is converted; NaN when that prefix is empty.                  *)
(***************************************************************************)
NaN == [isNaN |-> TRUE, value |-> 0]

Num(n) == [isNaN |-> FALSE, value |-> n]

HexDigits == <<"0", "1", "2", "3", "4", "5", "6", "7", "8", "9",
               "a", "b", "c", "d", "e", "f">>

IsDigit(c, radix) == \E i \in 1..radix : HexDigits[i] = c

DigitVal(c) == (CHOOSE i \in 1..16 : HexDigits[i] = c) - 1

IsWhiteSpace(c) == c \in {" ", "\t", "\n"}

RECURSIVE TrimStart(_)
TrimStart(s) ==
    IF s # << >> /\ IsWhiteSpace(Head(s)) THEN TrimStart(Tail(s)) ELSE s

RECURSIVE ParseDigits(_, _, _, _)
ParseDigits(s, radix, acc, seen) ==
    IF s # << >> /\ IsDigit(Head(s), radix)
    THEN ParseDigits(Tail(s), radix, acc * radix + DigitVal(Head(s)), TRUE)
    ELSE IF seen THEN Num(acc) ELSE NaN

parseInt(str) ==
    LET t == TrimStart(str)
        signed == t # << >> /\ Head(t) \in {"+", "-"}
        negative == signed /\ Head(t) = "-"
        u == IF signed THEN Tail(t) ELSE t
        hex == Len(u) >= 2 /\ u[1] = "0" /\ u[2] \in {"x", "X"}
        r == IF hex THEN ParseDigits(Tail(Tail(u)), 16, 0, FALSE)
                    ELSE ParseDigits(u, 10, 0, FALSE)
    IN  IF r.isNaN THEN NaN
        ELSE IF negative THEN Num(0 - r.value) ELSE r

isNaN(x) == x.isNaN

\* numValue <= 0 on a JavaScript number: false for NaN
LessOrEqualZero(x) == ~x.isNaN /\ x.value <= 0

\* numValue * k on a JavaScript number: NaN stays NaN
Times(x, k) == IF x.isNaN THEN NaN ELSE Num(x.value * k)

\* a conversion without the default branch of the switch
getMillisecondsNoDefault(value, unit) ==
    LET numValue == parseInt(value)
    IN  CASE unit = "seconds" -> Times(numValue, 1000)
          [] unit = "minutes" -> Times(Times(numValue, 60), 1000)
          [] unit = "hours" -> Times(Times(Times(numValue, 60), 60), 1000)
          [] OTHER -> NaN

(***************************************************************************)
(* getMilliseconds, App.js:186-198.                                        *)
(***************************************************************************)
getMilliseconds(value, unit) ==
    LET numValue == parseInt(value)
    IN  CASE unit = "seconds" -> Times(numValue, 1000)
          [] unit = "minutes" -> Times(Times(numValue, 60), 1000)
          [] unit = "hours" -> Times(Times(Times(numValue, 60), 60), 1000)
          [] OTHER -> Times(numValue, 1000)

(***************************************************************************)
(* The arguments getMilliseconds is applied to on its own: the decimal     *)
(* string of each magnitude up to MaxMagnitude, and the unit tags of the   *)
(* selector together with tags the switch does not name.                   *)
(***************************************************************************)
RECURSIVE Numeral(_)
Numeral(n) ==
    IF n < 10 THEN <<HexDigits[n + 1]>>
    ELSE Numeral(n \div 10) \o <<HexDigits[(n % 10) + 1]>>

ConversionValues == {Numeral(n) : n \in 1..MaxMagnitude}
ConversionUnits == Units \cup {"days", ""}

(***************************************************************************)
(* Date#toISOString and new Date(isoString).getTime(): the string holds    *)
(* the day, hour, minute, second and millisecond fields of the time value  *)
(* (the year-month-day part is kept as the day number since the epoch).    *)
(***************************************************************************)
toISOString(t) ==
    [day |-> t \div 86400000,
     hour |-> (t % 86400000) \div 3600000,
     minute |-> (t % 3600000) \div 60000,
     second |-> (t % 60000) \div 1000,
     ms |-> t % 1000]

getTime(iso) ==
    (((iso.day * 24 + iso.hour) * 60 + iso.minute) * 60 + iso.second) * 1000
        + iso.ms

(***************************************************************************)
(* Status messages, App.js:180, 217, 223, 250, 252, 260.                   *)
(***************************************************************************)
MsgPermission == "Failed to get notification permissions"
MsgMissing == "Please enter both reminder text and time"
MsgInvalid == "Please enter a valid number"
MsgSuccess == "Reminder set successfully"
MsgError == "Error setting reminder"
MsgCancelled == "Reminder cancelled"

(***************************************************************************)
(* The Store's updaters.                                                   *)
(***************************************************************************)
\* a sweep with the comparison inverted
cleanupExpiredInverted(current, t) ==
    SelectSeq(current, LAMBDA reminder : getTime(reminder.scheduledFor) < t)

\* a sweep that keeps a reminder due exactly now
cleanupExpiredKeepsDue(current, t) ==
    SelectSeq(current, LAMBDA reminder : getTime(reminder.scheduledFor) >= t)

\* App.js:150-155: current.filter(reminder => reminderTime > now)
cleanupExpiredFilter(current, t) ==
    SelectSeq(current, LAMBDA reminder : getTime(reminder.scheduledFor) > t)

\* a removal by position instead of by id
cleanupReminderFirst(current, id) ==
    IF current = << >> THEN current ELSE Tail(current)

\* App.js:160: current.filter(reminder => reminder.id !== id)
cleanupReminderFilter(current, id) ==
    SelectSeq(current, LAMBDA reminder : reminder.id # id)

\* an insertion that is forgotten
appendReminderDropped(current, id, p) == current

\* an insertion that takes the trigger time for the id
appendReminderIdFromTime(current, id, p) ==
    Append(current, [id |-> p.trigger,
                     text |-> p.text,
                     timeValue |-> p.numValue,
                     timeUnit |-> p.timeUnit,
                     scheduledFor |-> toISOString(p.trigger)])

\* an insertion into the Store as scheduleReminder saw it when the first call
\* was made, the empty Store, instead of the current one
appendReminderToSnapshot(current, id, p) ==
    <<[id |-> id,
       text |-> p.text,
       timeValue |-> p.numValue,
       timeUnit |-> p.timeUnit,
       scheduledFor |-> toISOString(p.trigger)]>>

\* App.js:240-246: [...current, {id, text, timeValue, timeUnit, scheduledFor}]
appendReminder(current, id, p) ==
    Append(current, [id |-> id,
                     text |-> p.text,
                     timeValue |-> p.numValue,
                     timeUnit |-> p.timeUnit,
                     scheduledFor |-> toISOString(p.trigger)])

\* a catch block that records the reminder all the same
catchStoreRecords(current, p) ==
    Append(current, [id |-> 0,
                     text |-> p.text,
                     timeValue |-> p.numValue,
                     timeUnit |-> p.timeUnit,
                     scheduledFor |-> toISOString(p.trigger)])

\* App.js:251-253: the catch block leaves the Store alone
catchStore(current, p) == current

\* a check that looks at the label only
missingInputLabelOnly(text, value) == text = ""

\* App.js:216: !reminderText || !timeValue
missingInput(text, value) == text = "" \/ value = << >>

\* a check that forgets the sign
invalidNumberOnlyNaN(numValue) == isNaN(numValue)

\* App.js:222: isNaN(numValue) || numValue <= 0
invalidNumber(numValue) == isNaN(numValue) \/ LessOrEqualZero(numValue)

\* a trigger that forgets the duration
triggerTimeNow(t, milliseconds) == t

\* App.js:229: Date.now() + milliseconds
triggerTime(t, milliseconds) == t + milliseconds.value

StoreIds(s) == {s[i].id : i \in 1..Len(s)}

\* The record of one step: the handler that ran, the id it was about, the
\* status messages it emitted, the schedule calls it issued to the gateway
\* and the number of Reminders it took out of the Store.
Step(op, id, toasts, gateway, removed) ==
    [op |-> op, id |-> id, toasts |-> toasts, gateway |-> gateway,
     removed |-> removed]

\* a state setter that goes on updating an unmounted component
setStateUnmounted(old, new) == new

\* The setters of useState, App.js:104-109: React applies an update while
\* the component is mounted and drops it once the component is unmounted.
setState(old, new) == IF mounted THEN new ELSE old

\* showToast, App.js:164-167, for the messages a handler emitted in order
showToast(messages) ==
    IF messages = << >>
    THEN UNCHANGED <<toastMessage, toastVisible>>
    ELSE /\ toastMessage' = setState(toastMessage, messages[Len(messages)])
         /\ toastVisible' = setState(toastVisible, TRUE)

Grown(new) ==
    IF Len(new) > Len(reminders) THEN Len(new) - Len(reminders) ELSE 0

Shrunk(new) ==
    IF Len(new) < Len(reminders) THEN Len(reminders) - Len(new) ELSE 0

(***************************************************************************)
(* State after the first render and its effect (App.js:113-118): the       *)
(* listeners and the interval are registered and the permission query is   *)
(* in flight.                                                              *)
(***************************************************************************)
Init ==
    /\ reminderText = ""
    /\ timeValue = << >>
    /\ timeUnit = "minutes"
    /\ reminders = << >>
    /\ toastVisible = FALSE
    /\ toastMessage = ""
    /\ appState \in AppStates
    /\ now = StartTime
    /\ permission = "getPermissions"
    /\ pendingSchedules = {}
    /\ pendingCancels = {}
    /\ notifications = {}
    /\ nextId = 1
    /\ calls = 0
    /\ cancelCalls = 0
    /\ inserts = 0
    /\ delivered = {}
    /\ cancelled = {}
    /\ unhandled = {}
    /\ last = [op |-> "mount", id |-> 0, toasts |-> << >>, gateway |-> 0,
               removed |-> 0]
    /\ mounted = TRUE
    /\ subscriptions = Subscriptions
    /\ returned = << >>

(***************************************************************************)
(* The input widgets, App.js:288, 293, 307.                                *)
(***************************************************************************)
setReminderText(text) ==
    /\ mounted
    /\ text # reminderText
    /\ reminderText' = text
    /\ UNCHANGED <<mounted, subscriptions, returned>>
    /\ UNCHANGED <<timeValue, timeUnit, reminders, toastVisible, toastMessage,
                   appState, now, permission, pendingSchedules, pendingCancels,
                   notifications, nextId, calls, cancelCalls, inserts,
                   delivered, cancelled, unhandled, last>>

setTimeValue(value) ==
    /\ mounted
    /\ value # timeValue
    /\ timeValue' = value
    /\ UNCHANGED <<mounted, subscriptions, returned>>
    /\ UNCHANGED <<reminderText, timeUnit, reminders, toastVisible,
                   toastMessage, appState, now, permission, pendingSchedules,
                   pendingCancels, notifications, nextId, calls, cancelCalls,
                   inserts, delivered, cancelled, unhandled, last>>

setTimeUnit(unit) ==
    /\ mounted
    /\ unit # timeUnit
    /\ timeUnit' = unit
    /\ UNCHANGED <<mounted, subscriptions, returned>>
    /\ UNCHANGED <<reminderText, timeValue, reminders, toastVisible,
                   toastMessage, appState, now, permission, pendingSchedules,
                   pendingCancels, notifications, nextId, calls, cancelCalls,
                   inserts, delivered, cancelled, unhandled, last>>

\* Toast's onHide, App.js:33 and 365
hideToast ==
    /\ mounted
    /\ toastVisible
    /\ toastVisible' = FALSE
    /\ UNCHANGED <<mounted, subscriptions, returned>>
    /\ UNCHANGED <<reminderText, timeValue, timeUnit, reminders, toastMessage,
                   appState, now, permission, pendingSchedules, pendingCancels,
                   notifications, nextId, calls, cancelCalls, inserts,
                   delivered, cancelled, unhandled, last>>

(***************************************************************************)
(* scheduleReminder up to its await, App.js:215-238.                       *)
(***************************************************************************)
scheduleReminder ==
    LET numValue == parseInt(timeValue)
        milliseconds == getMilliseconds(timeValue, timeUnit)
        trigger == triggerTime(now, milliseconds)
        messages == IF missingInput(reminderText, timeValue) THEN <<MsgMissing>>
                    ELSE IF invalidNumber(numValue) THEN <<MsgInvalid>>
                    ELSE << >>
    IN  /\ mounted
        /\ calls < MaxCalls
        /\ calls' = calls + 1
        /\ showToast(messages)
        /\ pendingSchedules' =
              IF messages # << >> THEN pendingSchedules
              ELSE pendingSchedules \cup
                     {[call |-> calls + 1, text |-> reminderText,
                       numValue |-> numValue.value, timeUnit |-> timeUnit,
                       trigger |-> trigger, startedAt |-> now]}
        /\ last' = Step("scheduleReminder", 0, messages,
                        Cardinality(pendingSchedules') - Cardinality(pendingSchedules), 0)
        /\ UNCHANGED <<mounted, subscriptions, returned>>
        /\ UNCHANGED <<reminderText, timeValue, timeUnit, reminders, appState,
                       now, permission, pendingCancels, notifications, nextId,
                       cancelCalls, inserts, delivered, cancelled, unhandled>>

(***************************************************************************)
(* scheduleNotificationAsync returns an id: the gateway holds the          *)
(* notification and scheduleReminder resumes at App.js:240-250.            *)
(***************************************************************************)
scheduleResolved(p) ==
    /\ p \in pendingSchedules
    /\ pendingSchedules' = pendingSchedules \ {p}
    /\ notifications' = notifications \cup {[id |-> nextId, trigger |-> p.trigger]}
    /\ nextId' = nextId + 1
    /\ reminders' = setState(reminders, appendReminder(reminders, nextId, p))
    /\ reminderText' = setState(reminderText, "")
    /\ timeValue' = setState(timeValue, << >>)
    /\ showToast(<<MsgSuccess>>)
    /\ inserts' = inserts + Grown(reminders')
    /\ last' = Step("scheduleResolved", nextId, <<MsgSuccess>>, 0,
                    Shrunk(reminders'))
    /\ UNCHANGED <<mounted, subscriptions, returned>>
    /\ UNCHANGED <<timeUnit, appState, now, permission, pendingCancels, calls,
                   cancelCalls, delivered, cancelled, unhandled>>

(***************************************************************************)
(* scheduleNotificationAsync rejects: the catch block, App.js:251-253.     *)
(***************************************************************************)
scheduleRejected(p) ==
    /\ p \in pendingSchedules
    /\ pendingSchedules' = pendingSchedules \ {p}
    /\ reminders' = setState(reminders, catchStore(reminders, p))
    /\ showToast(<<MsgError>>)
    /\ inserts' = inserts + Grown(reminders')
    /\ last' = Step("scheduleRejected", 0, <<MsgError>>, 0, Shrunk(reminders'))
    /\ UNCHANGED <<mounted, subscriptions, returned>>
    /\ UNCHANGED <<reminderText, timeValue, timeUnit, appState, now,
                   permission, pendingCancels, notifications, nextId, calls,
                   cancelCalls, delivered, cancelled, unhandled>>

(***************************************************************************)
(* cancelReminder up to its await, App.js:257-258; offered only on the     *)
(* entries the list shows, App.js:329-349.                                 *)
(***************************************************************************)
cancelReminder(id) ==
    /\ mounted
    /\ id \in StoreIds(reminders)
    /\ cancelCalls < MaxCancels
    /\ cancelCalls' = cancelCalls + 1
    /\ pendingCancels' = pendingCancels \cup {[id |-> id, call |-> cancelCalls + 1]}
    /\ cancelled' = cancelled \cup {id}
    /\ last' = Step("cancelReminder", id, << >>, 0, 0)
    /\ UNCHANGED <<mounted, subscriptions, returned>>
    /\ UNCHANGED <<reminderText, timeValue, timeUnit, reminders, toastVisible,
                   toastMessage, appState, now, permission, pendingSchedules,
                   notifications, nextId, calls, inserts, delivered, unhandled>>

\* cancelScheduledNotificationAsync resolves: App.js:259-260
cancelResolved(c) ==
    /\ c \in pendingCancels
    /\ pendingCancels' = pendingCancels \ {c}
    /\ notifications' = {n \in notifications : n.id # c.id}
    /\ reminders' = setState(reminders, cleanupReminderFilter(reminders, c.id))
    /\ showToast(<<MsgCancelled>>)
    /\ inserts' = inserts + Grown(reminders')
    /\ last' = Step("cancelResolved", c.id, <<MsgCancelled>>, 0,
                    Shrunk(reminders'))
    /\ UNCHANGED <<mounted, subscriptions, returned>>
    /\ UNCHANGED <<reminderText, timeValue, timeUnit, appState, now,
                   permission, pendingSchedules, nextId, calls, cancelCalls,
                   delivered, cancelled, unhandled>>

\* cancelScheduledNotificationAsync rejects: the await at App.js:258 throws,
\* nothing catches it, and the promise of cancelReminder rejects unhandled.
cancelRejected(c) ==
    /\ c \in pendingCancels
    /\ pendingCancels' = pendingCancels \ {c}
    /\ unhandled' = unhandled \cup {"cancelReminder"}
    /\ last' = Step("cancelRejected", c.id, << >>, 0, 0)
    /\ UNCHANGED <<mounted, subscriptions, returned>>
    /\ UNCHANGED <<reminderText, timeValue, timeUnit, reminders, toastVisible,
                   toastMessage, appState, now, permission, pendingSchedules,
                   notifications, nextId, calls, cancelCalls, inserts,
                   delivered, cancelled>>

(***************************************************************************)
(* The gateway fires a notification whose trigger time has come.  The      *)
(* listener of App.js:128-131 runs when the event reaches the app;         *)
(* otherwise the notification fires unobserved.                            *)
(***************************************************************************)
notificationReceived(n) ==
    /\ "notificationSubscription" \in subscriptions
    /\ n \in notifications
    /\ n.trigger <= now
    /\ notifications' = notifications \ {n}
    /\ delivered' = delivered \cup {n.id}
    /\ reminders' = setState(reminders, cleanupReminderFilter(reminders, n.id))
    /\ inserts' = inserts + Grown(reminders')
    /\ last' = Step("notificationReceived", n.id, << >>, 0, Shrunk(reminders'))
    /\ UNCHANGED <<mounted, subscriptions, returned>>
    /\ UNCHANGED <<reminderText, timeValue, timeUnit, toastVisible,
                   toastMessage, appState, now, permission, pendingSchedules,
                   pendingCancels, nextId, calls, cancelCalls, cancelled,
                   unhandled>>

notificationUnobserved(n) ==
    /\ n \in notifications
    /\ n.trigger <= now
    /\ appState # "active" \/ "notificationSubscription" \notin subscriptions
    /\ notifications' = notifications \ {n}
    /\ delivered' = delivered \cup {n.id}
    /\ last' = Step("notificationUnobserved", n.id, << >>, 0, 0)
    /\ UNCHANGED <<mounted, subscriptions, returned>>
    /\ UNCHANGED <<reminderText, timeValue, timeUnit, reminders, toastVisible,
                   toastMessage, appState, now, permission, pendingSchedules,
                   pendingCancels, nextId, calls, cancelCalls, inserts,
                   cancelled, unhandled>>

(***************************************************************************)
(* The app-state listener, App.js:136-144.                                 *)
(***************************************************************************)
\* App.js:138: appState.current.match(/inactive|background/)
matchesInactiveOrBackground(state) == state \in {"inactive", "background"}

\* a trigger that looks at the new state only
resumesOnActive(previous, nextAppState) == nextAppState = "active"

resumes(previous, nextAppState) ==
    matchesInactiveOrBackground(previous) /\ nextAppState = "active"

appStateChange(nextAppState) ==
    /\ "appStateSubscription" \in subscriptions
    /\ reminders' = IF resumes(appState, nextAppState)
                    THEN setState(reminders, cleanupExpiredFilter(reminders, now))
                    ELSE reminders
    /\ appState' = nextAppState
    /\ inserts' = inserts + Grown(reminders')
    /\ last' = Step(IF resumes(appState, nextAppState) THEN "resume"
                    ELSE "appStateChange", 0, << >>, 0, Shrunk(reminders'))
    /\ UNCHANGED <<mounted, subscriptions, returned>>
    /\ UNCHANGED <<reminderText, timeValue, timeUnit, toastVisible,
                   toastMessage, now, permission, pendingSchedules,
                   pendingCancels, notifications, nextId, calls, cancelCalls,
                   delivered, cancelled, unhandled>>

(***************************************************************************)
(* The interval of App.js:117 fires cleanupExpiredReminders, App.js:148.   *)
(***************************************************************************)
cleanupExpiredReminders ==
    /\ "cleanupInterval" \in subscriptions
    /\ reminders' = setState(reminders, cleanupExpiredFilter(reminders, now))
    /\ inserts' = inserts + Grown(reminders')
    /\ last' = Step("sweep", 0, << >>, 0, Shrunk(reminders'))
    /\ UNCHANGED <<mounted, subscriptions, returned>>
    /\ UNCHANGED <<reminderText, timeValue, timeUnit, toastVisible,
                   toastMessage, appState, now, permission, pendingSchedules,
                   pendingCancels, notifications, nextId, calls, cancelCalls,
                   delivered, cancelled, unhandled>>

(***************************************************************************)
(* registerForPushNotificationsAsync, App.js:170-183, started by the       *)
(* effect at App.js:114 without await or catch.                            *)
(***************************************************************************)
getPermissionsResolved(existingStatus) ==
    /\ permission = "getPermissions"
    /\ permission' = IF existingStatus # "granted" THEN "requestPermissions"
                     ELSE "done"
    /\ last' = Step("getPermissionsResolved", 0, << >>, 0, 0)
    /\ UNCHANGED <<mounted, subscriptions, returned>>
    /\ UNCHANGED <<reminderText, timeValue, timeUnit, reminders, toastVisible,
                   toastMessage, appState, now, pendingSchedules,
                   pendingCancels, notifications, nextId, calls, cancelCalls,
                   inserts, delivered, cancelled, unhandled>>

\* a request whose refusal is not reported
requestPermissionsSilent(status) ==
    /\ permission = "requestPermissions"
    /\ permission' = IF status # "granted" THEN "denied" ELSE "done"
    /\ last' = Step("requestPermissionsResolved", 0, << >>, 0, 0)
    /\ UNCHANGED <<reminderText, timeValue, timeUnit, reminders, toastVisible,
                   toastMessage, appState, now, pendingSchedules,
                   pendingCancels, notifications, nextId, calls, cancelCalls,
                   inserts, delivered, cancelled, unhandled, mounted,
                   subscriptions, returned>>

requestPermissionsResolved(status) ==
    LET messages == IF status # "granted" THEN <<MsgPermission>> ELSE << >>
    IN  /\ permission = "requestPermissions"
        /\ permission' = IF status # "granted" THEN "denied" ELSE "done"
        /\ showToast(messages)
        /\ last' = Step("requestPermissionsResolved", 0, messages, 0, 0)
        /\ UNCHANGED <<mounted, subscriptions, returned>>
        /\ UNCHANGED <<reminderText, timeValue, timeUnit, reminders, appState,
                       now, pendingSchedules, pendingCancels, notifications,
                       nextId, calls, cancelCalls, inserts, delivered,
                       cancelled, unhandled>>

\* getPermissionsAsync or requestPermissionsAsync rejects: the await throws
\* out of registerForPushNotificationsAsync, whose promise nobody handles.
permissionsRejected ==
    /\ permission \in {"getPermissions", "requestPermissions"}
    /\ permission' = "rejected"
    /\ unhandled' = unhandled \cup {"registerForPushNotificationsAsync"}
    /\ last' = Step("permissionsRejected", 0, << >>, 0, 0)
    /\ UNCHANGED <<mounted, subscriptions, returned>>
    /\ UNCHANGED <<reminderText, timeValue, timeUnit, reminders, toastVisible,
                   toastMessage, appState, now, pendingSchedules,
                   pendingCancels, notifications, nextId, calls, cancelCalls,
                   inserts, delivered, cancelled>>

(***************************************************************************)
(* The component is unmounted: the cleanup of the effect, App.js:119-123,  *)
(* removes the two listeners and clears the interval.  The widgets are     *)
(* gone; calls suspended at an await stay suspended.                       *)
(***************************************************************************)
unmount ==
    /\ mounted
    /\ mounted' = FALSE
    /\ subscriptions' = ((subscriptions \ {"notificationSubscription"})
                            \ {"appStateSubscription"}) \ {"cleanupInterval"}
    /\ last' = Step("unmount", 0, << >>, 0, 0)
    /\ UNCHANGED <<reminderText, timeValue, timeUnit, reminders, toastVisible,
                   toastMessage, appState, now, permission, pendingSchedules,
                   pendingCancels, notifications, nextId, calls, cancelCalls,
                   inserts, delivered, cancelled, unhandled, returned>>

(***************************************************************************)
(* getMilliseconds applied on its own to a magnitude string and a unit tag.*)
(***************************************************************************)
applyGetMilliseconds(value, unit) ==
    /\ returned' = <<[value |-> value, unit |-> unit,
                      result |-> getMilliseconds(value, unit)]>>
    /\ UNCHANGED <<reminderText, timeValue, timeUnit, reminders, toastVisible,
                   toastMessage, appState, now, permission, pendingSchedules,
                   pendingCancels, notifications, nextId, calls, cancelCalls,
                   inserts, delivered, cancelled, unhandled, last, mounted,
                   subscriptions>>

(***************************************************************************)
(* The clock: it moves forward by TickMs while within the horizon, or to   *)
(* the next instant at which something is due.                             *)
(***************************************************************************)
DueTimes ==
    {p.trigger : p \in pendingSchedules} \cup {n.trigger : n \in notifications}
        \cup {getTime(reminders[i].scheduledFor) : i \in 1..Len(reminders)}

NextInstants ==
    {t \in DueTimes : t > now}
        \cup (IF now + TickMs <= StartTime + Horizon THEN {now + TickMs} ELSE {})

Tick(t) ==
    /\ t \in NextInstants
    /\ now' = t
    /\ UNCHANGED <<mounted, subscriptions, returned>>
    /\ UNCHANGED <<reminderText, timeValue, timeUnit, reminders, toastVisible,
                   toastMessage, appState, permission, pendingSchedules,
                   pendingCancels, notifications, nextId, calls, cancelCalls,
                   inserts, delivered, cancelled, unhandled, last>>

(***************************************************************************)
(* Every handler and every outcome of the gateway and the host.            *)
(***************************************************************************)
Next ==
    \/ \E text \in Texts : setReminderText(text)
    \/ \E value \in TimeValues : setTimeValue(value)
    \/ \E unit \in Units : setTimeUnit(unit)
    \/ hideToast
    \/ scheduleReminder
    \/ \E p \in pendingSchedules : scheduleResolved(p)
    \/ \E p \in pendingSchedules : scheduleRejected(p)
    \/ \E id \in StoreIds(reminders) : cancelReminder(id)
    \/ \E c \in pendingCancels : cancelResolved(c)
    \/ \E c \in pendingCancels : cancelRejected(c)
    \/ \E n \in notifications : notificationReceived(n)
    \/ \E n \in notifications : notificationUnobserved(n)
    \/ \E nextAppState \in AppStates : appStateChange(nextAppState)
    \/ cleanupExpiredReminders
    \/ \E status \in PermissionStatuses : getPermissionsResolved(status)
    \/ \E status \in PermissionStatuses : requestPermissionsResolved(status)
    \/ permissionsRejected
    \/ unmount
    \/ \E t \in NextInstants : Tick(t)

Spec == Init /\ [][Next]_vars

(***************************************************************************)
(* The reminder lifecycle: the handlers and events that read or write the  *)
(* Store, with a valid form typed in.  The permission query, the unit      *)
(* selector and the toast's fade-out touch none of the Store's state.      *)
(***************************************************************************)
NextLifecycle ==
    \/ \E text \in LifecycleTexts : setReminderText(text)
    \/ \E value \in LifecycleValues : setTimeValue(value)
    \/ scheduleReminder
    \/ \E p \in pendingSchedules : scheduleResolved(p)
    \/ \E p \in pendingSchedules : scheduleRejected(p)
    \/ \E id \in StoreIds(reminders) : cancelReminder(id)
    \/ \E c \in pendingCancels : cancelResolved(c)
    \/ \E c \in pendingCancels : cancelRejected(c)
    \/ \E n \in notifications : notificationReceived(n)
    \/ \E n \in notifications : notificationUnobserved(n)
    \/ \E nextAppState \in AppStates : appStateChange(nextAppState)
    \/ cleanupExpiredReminders
    \/ \E t \in NextInstants : Tick(t)

SpecLifecycle == Init /\ [][NextLifecycle]_vars

(***************************************************************************)
(* The lifecycle with the scheduling the host provides: the interval of    *)
(* App.js:117 keeps firing and the clock keeps moving.  Nothing is assumed *)
(* of the gateway: its calls may stay unanswered and its events unsent.    *)
(***************************************************************************)
LiveLifecycle ==
    /\ SpecLifecycle
    /\ WF_vars(cleanupExpiredReminders)
    /\ WF_vars(\E t \in NextInstants : Tick(t))

(***************************************************************************)
(* The form and the scheduling operation alone, over everything the user   *)
(* can type: validation, the gateway's answer, the clock.                  *)
(***************************************************************************)
NextForm ==
    \/ \E text \in Texts : setReminderText(text)
    \/ \E value \in TimeValues : setTimeValue(value)
    \/ \E unit \in Units : setTimeUnit(unit)
    \/ scheduleReminder
    \/ \E p \in pendingSchedules : scheduleResolved(p)
    \/ \E p \in pendingSchedules : scheduleRejected(p)
    \/ \E t \in NextInstants : Tick(t)

SpecForm == Init /\ [][NextForm]_vars

(***************************************************************************)
(* Scheduling end to end: the form over every unit, the gateway's id, the  *)
(* clock and the sweep of the interval.                                    *)
(***************************************************************************)
NextEndToEnd ==
    \/ \E text \in LifecycleTexts : setReminderText(text)
    \/ \E value \in EndToEndValues : setTimeValue(value)
    \/ \E unit \in Units : setTimeUnit(unit)
    \/ scheduleReminder
    \/ \E p \in pendingSchedules : scheduleResolved(p)
    \/ cleanupExpiredReminders
    \/ \E t \in NextInstants : Tick(t)

SpecEndToEnd == Init /\ [][NextEndToEnd]_vars

(***************************************************************************)
(* The lifecycle up to and after the component's shutdown: the gateway     *)
(* goes on answering the calls that were suspended and firing what it      *)
(* holds.                                                                  *)
(***************************************************************************)
NextShutdown ==
    \/ \E text \in LifecycleTexts : setReminderText(text)
    \/ \E value \in LifecycleValues : setTimeValue(value)
    \/ scheduleReminder
    \/ \E p \in pendingSchedules : scheduleResolved(p)
    \/ \E p \in pendingSchedules : scheduleRejected(p)
    \/ \E id \in StoreIds(reminders) : cancelReminder(id)
    \/ \E c \in pendingCancels : cancelResolved(c)
    \/ \E c \in pendingCancels : cancelRejected(c)
    \/ \E n \in notifications : notificationReceived(n)
    \/ \E n \in notifications : notificationUnobserved(n)
    \/ \E nextAppState \in AppStates : appStateChange(nextAppState)
    \/ cleanupExpiredReminders
    \/ unmount
    \/ \E t \in NextInstants : Tick(t)

SpecShutdown == Init /\ [][NextShutdown]_vars

(***************************************************************************)
(* Startup: the permission query started by the effect runs to its end     *)
(* while the user fills the form in and schedules.                         *)
(***************************************************************************)
NextStartup ==
    \/ \E status \in PermissionStatuses : getPermissionsResolved(status)
    \/ \E status \in PermissionStatuses : requestPermissionsResolved(status)
    \/ permissionsRejected
    \/ \E text \in LifecycleTexts : setReminderText(text)
    \/ \E value \in LifecycleValues : setTimeValue(value)
    \/ scheduleReminder
    \/ \E p \in pendingSchedules : scheduleResolved(p)
    \/ \E p \in pendingSchedules : scheduleRejected(p)
    \/ hideToast

SpecStartup == Init /\ [][NextStartup]_vars

(***************************************************************************)
(* getMilliseconds as a function of its two arguments.                     *)
(***************************************************************************)
NextConversion ==
    \E value \in ConversionValues, unit \in ConversionUnits :
        applyGetMilliseconds(value, unit)

SpecConversion == Init /\ [][NextConversion]_vars

(***************************************************************************)
(* What the properties below say about a Reminder, stated apart from the   *)
(* handlers' own code.                                                     *)
(***************************************************************************)
\* the fire time a Reminder's scheduledFor field denotes, in milliseconds
FireAt(r) ==
    r.scheduledFor.day * 86400000 + r.scheduledFor.hour * 3600000
        + r.scheduledFor.minute * 60000 + r.scheduledFor.second * 1000
        + r.scheduledFor.ms

\* the sub-list of s whose fire time is later than t
RECURSIVE KeepFuture(_, _)
KeepFuture(s, t) ==
    IF s = << >> THEN << >>
    ELSE IF FireAt(Head(s)) > t THEN <<Head(s)>> \o KeepFuture(Tail(s), t)
    ELSE KeepFuture(Tail(s), t)

\* the sub-list of s without the Reminders whose id is x
RECURSIVE Without(_, _)
Without(s, x) ==
    IF s = << >> THEN << >>
    ELSE IF Head(s).id = x THEN Without(Tail(s), x)
    ELSE <<Head(s)>> \o Without(Tail(s), x)

Occurrences(s, x) == Cardinality({i \in 1..Len(s) : s[i].id = x})

Newest(s) == s[Len(s)]

(***************************************************************************)
(* C1.  Scheduling atomicity: the number of Reminders that entered the     *)
(* Store equals the number of schedule calls the gateway answered with an  *)
(* id (nextId - 1); every id in the Store is one the gateway returned; and *)
(* right after a schedule call returned id, the Store's newest Reminder    *)
(* carries that id, once.                                                  *)
(***************************************************************************)
C1_SchedulingAtomicity ==
    /\ inserts = nextId - 1
    /\ StoreIds(reminders) \subseteq 1..(nextId - 1)
    /\ last.op = "scheduleResolved" =>
          /\ reminders # << >>
          /\ Newest(reminders).id = last.id
          /\ last.id = nextId - 1
          /\ Occurrences(reminders, last.id) = 1
    /\ last.op = "scheduleRejected" => last.id = 0

\* a schedule call has failed after another succeeded and was recorded
C1_Witness ==
    /\ last.op = "scheduleRejected"
    /\ inserts = 1
    /\ Len(reminders) = 1

(***************************************************************************)
(* C2.  As claimed: when a cancelReminder(X) call completes, by the        *)
(* gateway's cancel succeeding or failing, with X in a Store of size N,    *)
(* the Store has size N-1 and lacks X.                                     *)
(***************************************************************************)
C2_CancelAlwaysRemoves ==
    [][\A c \in pendingCancels :
          (c \notin pendingCancels' /\ c.id \in StoreIds(reminders)) =>
              /\ Len(reminders') = Len(reminders) - 1
              /\ c.id \notin StoreIds(reminders')]_vars

(***************************************************************************)
(* C3.  A scheduleReminder invocation on an empty label, an empty          *)
(* magnitude, or the magnitude "0", "-3" or "abc" leaves the Store         *)
(* unchanged, issues no schedule call to the gateway and emits exactly one *)
(* status message.                                                         *)
(***************************************************************************)
RejectedInput(text, value) ==
    \/ text = ""
    \/ value = << >>
    \/ value \in {<<"0">>, <<"-", "3">>, <<"a", "b", "c">>}

C3_ValidationRejection ==
    [][(calls' = calls + 1 /\ RejectedInput(reminderText, timeValue)) =>
          /\ reminders' = reminders
          /\ pendingSchedules' = pendingSchedules
          /\ notifications' = notifications
          /\ nextId' = nextId
          /\ last'.gateway = 0
          /\ Len(last'.toasts) = 1
          /\ toastVisible'
          /\ toastMessage' = last'.toasts[1]
          /\ toastMessage' \in {MsgMissing, MsgInvalid}]_vars

\* "-3" was rejected while a Reminder was in the Store
C3_Witness ==
    /\ last.op = "scheduleReminder"
    /\ last.toasts = <<MsgInvalid>>
    /\ timeValue = <<"-", "3">>
    /\ reminderText # ""
    /\ reminders # << >>

(***************************************************************************)
(* C4.  When the gateway's schedule call fails, scheduleReminder leaves    *)
(* the Store unchanged, emits the one message 'Error setting reminder',    *)
(* which differs from the success and the two validation messages, and     *)
(* issues no further schedule call.                                        *)
(***************************************************************************)
C4_GatewayFailure ==
    [][\A p \in pendingSchedules :
          (p \notin pendingSchedules' /\ nextId' = nextId) =>
              /\ reminders' = reminders
              /\ notifications' = notifications
              /\ last'.toasts = <<"Error setting reminder">>
              /\ toastMessage' = "Error setting reminder"
              /\ toastVisible'
              /\ toastMessage' \notin {MsgSuccess, MsgMissing, MsgInvalid}
              /\ pendingSchedules' = pendingSchedules \ {p}
              /\ last'.gateway = 0
              /\ calls' = calls]_vars

\* a schedule call failed while a Reminder was in the Store
C4_Witness ==
    /\ last.op = "scheduleRejected"
    /\ toastMessage = MsgError
    /\ reminders # << >>

(***************************************************************************)
(* C5.  Eventual consistency: a Reminder in the Store whose notification   *)
(* was delivered, whose fireAt has passed or which the user cancelled is   *)
(* eventually absent from the Store; and a Reminder leaves the Store only  *)
(* if it was cancelled or delivered or its fireAt has passed.              *)
(***************************************************************************)
InStore(id) == id \in StoreIds(reminders)

Resolved(id) ==
    \/ id \in delivered
    \/ id \in cancelled
    \/ \E i \in 1..Len(reminders) :
          reminders[i].id = id /\ FireAt(reminders[i]) <= now

C5_EventualConsistency ==
    /\ \A id \in 1..MaxCalls : (InStore(id) /\ Resolved(id)) ~> ~InStore(id)
    /\ [][\A i \in 1..Len(reminders) :
            reminders[i].id \notin StoreIds(reminders') =>
                \/ reminders[i].id \in cancelled'
                \/ reminders[i].id \in delivered'
                \/ FireAt(reminders[i]) <= now]_vars

\* a Reminder whose cancel call the gateway refused stayed in the Store until
\* a compaction removed it, while a later one is still pending
C5_Witness ==
    /\ last.op = "sweep"
    /\ cancelled = {1}
    /\ "cancelReminder" \in unhandled
    /\ delivered = {}
    /\ StoreIds(reminders) = {2}

(***************************************************************************)
(* C6.  Compaction, run by the sweep or by the resume trigger at time now, *)
(* leaves exactly the sub-list of Reminders with fireAt > now, in order.   *)
(***************************************************************************)
C6_Compaction ==
    [][(\/ cleanupExpiredReminders
        \/ \E nextAppState \in AppStates :
              resumes(appState, nextAppState) /\ appStateChange(nextAppState))
          => reminders' = KeepFuture(reminders, now)]_vars

\* a sweep has removed one Reminder (nothing else could have) and kept one
C6_Witness ==
    /\ last.op = "sweep"
    /\ inserts = 2
    /\ Len(reminders) = 1
    /\ cancelled = {}
    /\ delivered = {}
    /\ appState = "active"

(***************************************************************************)
(* C7.  A delivery event carrying id X removes exactly the Reminder with   *)
(* id X and leaves the others, and their order, unchanged; with X absent   *)
(* the Store stays as it is.                                               *)
(***************************************************************************)
C7_DeliveryRemovesExactlyOne ==
    [][\A n \in notifications :
          notificationReceived(n) =>
              /\ reminders' = Without(reminders, n.id)
              /\ Len(reminders') =
                    Len(reminders) - (IF n.id \in StoreIds(reminders) THEN 1 ELSE 0)
              /\ n.id \notin StoreIds(reminders) => reminders' = reminders]_vars

\* a delivery event removed the second of two Reminders and left the first
C7_Witness ==
    /\ last.op = "notificationReceived"
    /\ last.id = 2
    /\ StoreIds(reminders) = {1}
    /\ cancelled = {}

(***************************************************************************)
(* C8.  No two Reminders in the Store share an id.                         *)
(***************************************************************************)
C8_UniqueIds ==
    \A i, j \in 1..Len(reminders) :
        i # j => reminders[i].id # reminders[j].id

\* two Reminders scheduled for the same instant are in the Store
C8_Witness ==
    /\ Len(reminders) = 2
    /\ FireAt(reminders[1]) = FireAt(reminders[2])

(***************************************************************************)
(* C9.  As claimed: when scheduleReminder inserts a Reminder, its fireAt   *)
(* is later than the clock at that moment, whatever the gateway's latency. *)
(***************************************************************************)
C9_FutureAtInsertion ==
    [][\A p \in pendingSchedules :
          scheduleResolved(p) => FireAt(Newest(reminders')) > now']_vars

(***************************************************************************)
(* C9, amended.  When scheduleReminder inserts a Reminder, its fireAt is   *)
(* later than the clock at which scheduleReminder was invoked, by the      *)
(* duration entered; it is later than the clock at the insertion exactly   *)
(* when the gateway took less than that duration to answer.                *)
(***************************************************************************)
UnitMs(unit) ==
    IF unit = "hours" THEN 3600000 ELSE IF unit = "minutes" THEN 60000 ELSE 1000

C9_FutureAtInvocation ==
    [][\A p \in pendingSchedules :
          scheduleResolved(p) =>
              LET r == Newest(reminders')
              IN  /\ FireAt(r) > p.startedAt
                  /\ r.timeValue > 0
                  /\ FireAt(r) = p.startedAt + r.timeValue * UnitMs(r.timeUnit)
                  /\ (FireAt(r) > now') <=>
                        (now' - p.startedAt < r.timeValue * UnitMs(r.timeUnit))]_vars

\* the gateway answered when the fire time had already come
C9_Witness ==
    /\ last.op = "scheduleResolved"
    /\ reminders # << >>
    /\ Newest(reminders).id = last.id
    /\ FireAt(Newest(reminders)) <= now

(***************************************************************************)
(* C10.  As claimed: no failure of a gateway call escapes unhandled, and   *)
(* each one emits a status message.                                        *)
(***************************************************************************)
C10_FailuresSurfaced ==
    /\ unhandled = {}
    /\ last.op \in {"scheduleRejected", "cancelRejected", "permissionsRejected"}
          => Len(last.toasts) = 1

(***************************************************************************)
(* C11.  As claimed: every Reminder in the Store has a magnitude that is a *)
(* positive integer, and no schedule call, hence no Reminder, is ever      *)
(* built from a magnitude string that is not a decimal numeral or that     *)
(* denotes no positive number.                                             *)
(***************************************************************************)
DecimalDigits == {"0", "1", "2", "3", "4", "5", "6", "7", "8", "9"}

\* value is written with decimal digits only and denotes a positive number
PositiveNumeral(value) ==
    /\ value # << >>
    /\ \A i \in 1..Len(value) : value[i] \in DecimalDigits
    /\ \E i \in 1..Len(value) : value[i] # "0"

C11_PositiveMagnitudeStored ==
    \A i \in 1..Len(reminders) :
        reminders[i].timeValue \in Nat /\ reminders[i].timeValue > 0

C11_MagnitudeValidated ==
    /\ []C11_PositiveMagnitudeStored
    /\ [][pendingSchedules' # pendingSchedules /\ calls' = calls + 1
            => PositiveNumeral(timeValue)]_vars

(***************************************************************************)
(* C12.  Validation runs in a fixed order and the first failure wins: a    *)
(* scheduleReminder invocation with an empty label or an empty magnitude   *)
(* emits the "missing input" message, whatever the magnitude; the "invalid *)
(* number" message is emitted only when both are non-empty and the         *)
(* magnitude is not a positive integer, and it is emitted for "0", "-3"    *)
(* and "abc"; the two messages differ.                                     *)
(***************************************************************************)
C12_ValidationOrder ==
    /\ [][calls' = calls + 1 =>
            /\ (reminderText = "" \/ timeValue = << >>)
                  => last'.toasts = <<"Please enter both reminder text and time">>
            /\ "Please enter a valid number" \in {last'.toasts[i] : i \in 1..Len(last'.toasts)}
                  => /\ reminderText # ""
                     /\ timeValue # << >>
                     /\ ~PositiveNumeral(timeValue)
                     /\ Len(last'.toasts) = 1
            /\ (/\ reminderText # ""
                /\ timeValue \in {<<"0">>, <<"-", "3">>, <<"a", "b", "c">>})
                  => last'.toasts = <<"Please enter a valid number">>
            /\ Len(last'.toasts) <= 1
            /\ last'.toasts # << >> => toastMessage' = last'.toasts[1]]_vars
    /\ [](MsgMissing # MsgInvalid)

\* an invocation with an empty label and the magnitude "abc" has reported
\* the missing input
C12_Witness ==
    /\ last.op = "scheduleReminder"
    /\ last.toasts = <<MsgMissing>>
    /\ toastMessage = MsgMissing
    /\ reminderText = ""
    /\ timeValue = <<"a", "b", "c">>
    /\ calls = 1

(***************************************************************************)
(* C13.  A schedule of label L with magnitude n and unit u invoked at      *)
(* clock time t0, once the gateway returned its id, has put into the Store *)
(* one Reminder with text L and fireAt = t0 + n * (milliseconds of u); a   *)
(* sweep at a time before a Reminder's fireAt keeps it, and a sweep at a   *)
(* time at or after its fireAt removes it.                                 *)
(***************************************************************************)
DigitValue(c) == CHOOSE d \in 0..9 : <<"0", "1", "2", "3", "4", "5", "6", "7", "8", "9">>[d + 1] = c

RECURSIVE NumeralValue(_)
NumeralValue(value) ==
    IF value = << >> THEN 0
    ELSE 10 * NumeralValue(SubSeq(value, 1, Len(value) - 1)) + DigitValue(value[Len(value)])

C13_EndToEnd ==
    /\ [][\A p \in pendingSchedules' \ pendingSchedules :
            /\ p.text = reminderText
            /\ p.startedAt = now
            /\ p.timeUnit = timeUnit
            /\ PositiveNumeral(timeValue) => p.numValue = NumeralValue(timeValue)]_vars
    /\ [][\A p \in pendingSchedules :
            scheduleResolved(p) =>
                /\ Len(reminders') = Len(reminders) + 1
                /\ SubSeq(reminders', 1, Len(reminders)) = reminders
                /\ Newest(reminders').text = p.text
                /\ Newest(reminders').timeValue = p.numValue
                /\ Newest(reminders').timeUnit = p.timeUnit
                /\ FireAt(Newest(reminders')) =
                      p.startedAt + p.numValue * UnitMs(p.timeUnit)]_vars
    /\ [][cleanupExpiredReminders =>
            \A i \in 1..Len(reminders) :
                /\ FireAt(reminders[i]) > now =>
                      \E j \in 1..Len(reminders') : reminders'[j] = reminders[i]
                /\ FireAt(reminders[i]) <= now =>
                      reminders[i].id \notin StoreIds(reminders')]_vars

\* a sweep has removed a Reminder and kept a Reminder of 2 hours, which is
\* not yet due
C13_Witness ==
    /\ last.op = "sweep"
    /\ inserts = 2
    /\ Len(reminders) = 1
    /\ reminders[1].text = "Call mom"
    /\ reminders[1].timeValue = 2
    /\ reminders[1].timeUnit = "hours"
    /\ FireAt(reminders[1]) > now
    /\ now > StartTime

(***************************************************************************)
(* C14.  getMilliseconds applied to the decimal string of a positive       *)
(* integer n returns n*1000 for 'seconds', n*60000 for 'minutes' and       *)
(* n*3600000 for 'hours'; for any other unit tag it returns a number, not  *)
(* NaN, and that number is n*1000.                                         *)
(***************************************************************************)
C14_Conversion ==
    \A i \in 1..Len(returned) :
        /\ \E n \in 1..MaxMagnitude : returned[i].value = Numeral(n)
        /\ \A n \in 1..MaxMagnitude :
              returned[i].value = Numeral(n) =>
                  /\ ~returned[i].result.isNaN
                  /\ returned[i].unit = "seconds" =>
                        returned[i].result.value = n * 1000
                  /\ returned[i].unit = "minutes" =>
                        returned[i].result.value = n * 60000
                  /\ returned[i].unit = "hours" =>
                        returned[i].result.value = n * 3600000
                  /\ returned[i].unit \notin {"seconds", "minutes", "hours"} =>
                        returned[i].result.value = n * 1000

\* the conversion was applied to "12" with a unit tag the switch does not name
C14_Witness ==
    /\ returned # << >>
    /\ returned[1].value = <<"1", "2">>
    /\ returned[1].unit = "days"
    /\ returned[1].result = [isNaN |-> FALSE, value |-> 12000]

(***************************************************************************)
(* C15.  The permission check runs once, at startup: it never starts       *)
(* again and its outcome is final.  When it ends with permission not       *)
(* granted, that step emits exactly the one message 'Failed to get         *)
(* notification permissions', and no other step ever emits it.  Whatever   *)
(* the outcome, scheduleReminder stays available and an invocation on a    *)
(* valid form issues its schedule call to the gateway.                     *)
(***************************************************************************)
Emitted(step) == {step.toasts[i] : i \in 1..Len(step.toasts)}

C15_PermissionDenied ==
    /\ [][permission' # permission =>
            /\ permission \in {"getPermissions", "requestPermissions"}
            /\ permission' # "getPermissions"
            /\ permission' = "denied" <=>
                  last'.toasts = <<"Failed to get notification permissions">>
            /\ permission' = "denied" =>
                  /\ toastVisible'
                  /\ toastMessage' = "Failed to get notification permissions"
            /\ UNCHANGED <<reminders, pendingSchedules, calls, mounted>>]_vars
    /\ [][(permission' = permission /\ last' # last) =>
            "Failed to get notification permissions" \notin Emitted(last')]_vars
    /\ [][(/\ calls' = calls + 1
           /\ reminderText = "Call mom"
           /\ timeValue = <<"1">>) =>
            /\ last'.gateway = 1
            /\ Cardinality(pendingSchedules') = Cardinality(pendingSchedules) + 1]_vars
    /\ []((permission = "denied" /\ calls < MaxCalls) => ENABLED scheduleReminder)

\* permission was refused, and scheduleReminder has since issued a schedule
\* call to the gateway
C15_Witness ==
    /\ permission = "denied"
    /\ last.op = "scheduleReminder"
    /\ last.gateway = 1
    /\ pendingSchedules # {}

(***************************************************************************)
(* C16.  The three resolution paths are idempotent and commute on an id X: *)
(* a delivery removal or a cancel removal of X takes out the Reminders     *)
(* with id X and no other, and with X already gone it leaves the Store as  *)
(* it is and raises nothing; a compaction leaves the Reminders that are    *)
(* not yet due, so that a second one at the same instant changes nothing;  *)
(* and removing X before or after a compaction gives the same Store.       *)
(***************************************************************************)
C16_IdempotentRemoval ==
    /\ [](\A id \in 1..(MaxCalls + 1) :
            /\ cleanupReminderFilter(cleanupReminderFilter(reminders, id), id)
                  = cleanupReminderFilter(reminders, id)
            /\ cleanupReminderFilter(cleanupExpiredFilter(reminders, now), id)
                  = cleanupExpiredFilter(cleanupReminderFilter(reminders, id), now)
            /\ cleanupExpiredFilter(cleanupReminderFilter(reminders, id), now)
                  = Without(KeepFuture(reminders, now), id))
    /\ [](cleanupExpiredFilter(cleanupExpiredFilter(reminders, now), now)
            = cleanupExpiredFilter(reminders, now))
    /\ [][\A n \in notifications :
            notificationReceived(n) =>
                /\ reminders' = Without(reminders, n.id)
                /\ n.id \notin StoreIds(reminders) => reminders' = reminders
                /\ unhandled' = unhandled]_vars
    /\ [][\A c \in pendingCancels :
            cancelResolved(c) =>
                /\ reminders' = Without(reminders, c.id)
                /\ c.id \notin StoreIds(reminders) => reminders' = reminders
                /\ unhandled' = unhandled]_vars
    /\ [][(\/ cleanupExpiredReminders
           \/ \E nextAppState \in AppStates :
                 resumes(appState, nextAppState) /\ appStateChange(nextAppState))
            => /\ reminders' = KeepFuture(reminders, now)
               /\ KeepFuture(reminders', now) = reminders'
               /\ unhandled' = unhandled]_vars

\* the cancel removal of Reminder 1 ran after its delivery removal (or a
\* compaction) had taken it out: it removed nothing and left Reminder 2
C16_Witness ==
    /\ last.op = "cancelResolved"
    /\ last.id = 1
    /\ last.removed = 0
    /\ 1 \in delivered
    /\ StoreIds(reminders) = {2}
    /\ unhandled = {}

(***************************************************************************)
(* C17.  The resume trigger is edge-triggered: an app-state change event   *)
(* runs the compaction exactly when the recorded state was inactive or     *)
(* background and the new state is active, and otherwise leaves the Store  *)
(* as it is, Reminders that are due included; after every change event the *)
(* recorded state is the new state.                                        *)
(***************************************************************************)
C17_EdgeTriggered ==
    [][\A nextAppState \in AppStates :
          appStateChange(nextAppState) =>
              /\ appState' = nextAppState
              /\ (appState \in {"inactive", "background"} /\ nextAppState = "active")
                    => reminders' = KeepFuture(reminders, now)
              /\ ~(appState \in {"inactive", "background"} /\ nextAppState = "active")
                    => reminders' = reminders
              /\ (appState = "active" /\ nextAppState = "active")
                    => reminders' = reminders
              /\ (appState = "active" /\ nextAppState = "background")
                    => reminders' = reminders
              /\ (appState = "background" /\ nextAppState = "inactive")
                    => reminders' = reminders]_vars

\* the notification of Reminder 1 fired unobserved, so Reminder 1 was due;
\* a later change event to inactive, the last handler to run, has left it in
\* the Store
C17_Witness ==
    /\ last.op = "appStateChange"
    /\ appState = "inactive"
    /\ 1 \in delivered
    /\ 1 \in StoreIds(reminders)
    /\ \E i \in 1..Len(reminders) : FireAt(reminders[i]) <= now

C19_NoLostUpdates ==
    /\ [][\A p \in pendingSchedules :
            scheduleResolved(p) =>
                /\ Len(reminders') = Len(reminders) + 1
                /\ SubSeq(reminders', 1, Len(reminders)) = reminders
                /\ Newest(reminders').id = nextId
                /\ StoreIds(reminders') = StoreIds(reminders) \cup {nextId}]_vars
    /\ [][\A c \in pendingCancels :
            cancelResolved(c) =>
                /\ reminders' = Without(reminders, c.id)
                /\ StoreIds(reminders') = StoreIds(reminders) \ {c.id}]_vars
    /\ [][\A n \in notifications :
            notificationReceived(n) =>
                /\ reminders' = Without(reminders, n.id)
                /\ StoreIds(reminders') = StoreIds(reminders) \ {n.id}]_vars
    /\ [][cleanupExpiredReminders => reminders' = KeepFuture(reminders, now)]_vars
    /\ [][StoreIds(reminders') \ StoreIds(reminders) \subseteq {nextId}]_vars

\* two scheduleReminder calls were invoked at the start; the first answer
\* put Reminder 1 into the Store, a compaction took it out once it was due,
\* and then the second call resumed: the Store holds Reminder 2 alone
C19_Witness ==
    /\ last.op = "scheduleResolved"
    /\ last.id = 2
    /\ StoreIds(reminders) = {2}
    /\ inserts = 2
    /\ cancelled = {}
    /\ delivered = {}
    /\ FireAt(reminders[1]) = StartTime + 60000
    /\ now >= StartTime + 60000

====
